---- MODULE Spec2Model ----
(***************************************************************************)
(* A model of the lixun-robot question answering core:                     *)
(*   core/conversation_manager.py  ConversationManager (the store)         *)
(*   core/vector_store.py          VectorStoreManager.similarity_search    *)
(*   chains/chat_agent.py          ChatAgent (enrichment, parsing, fallback,*)
(*                                 promotion, the chat turn)               *)
(*                                                                         *)
(* A Python str is a sequence of characters.  The module is ASCII, so a    *)
(* CJK character is written as a one-element name:                         *)
(*   "lb" = U+3010 left bracket     "rb" = U+3011 right bracket            *)
(*   "wen" "dang" = the two characters of the document label               *)
(*   "shi" "ji" "yin" "yong" "nei" "rong" = the six characters inside the  *)
(*   citation marker            "juhao" = U+3002 ideographic full stop     *)
(*   "mao" "be" "yi" "zhong" "dong" "wu" "xi" "huan" "shui" "jiao" "zuo"   *)
(*   "shen" "me" = the characters of the cat scenario                      *)
(* Every other character is itself ("a", "A", "1", ":", " ", "\n", ...).   *)
(***************************************************************************)
EXTENDS Integers, Sequences, FiniteSets, TLC

VARIABLES
    max_history,      \* ConversationManager.max_history
    conversations,    \* ConversationManager.conversations: id -> list of messages
    clock,            \* the wall clock read by datetime.now()
    appended,         \* history variable: per id, the messages appended since creation / last clear
    vector_store,     \* VectorStoreManager.vector_store: "None" or "index"
    pc,               \* position of the caller inside ChatAgent.chat / generate_answer
    turn,             \* locals of the running chat(): question, conversation_id, history
    enhanced_query,   \* retrieve_documents: the query handed to similarity_search
    retrieved_docs,   \* ChatState.retrieved_docs
    full_response,    \* generate_answer: the raw text the model returned
    answer,           \* ChatState.answer
    actual_citations, \* generate_answer: the RawCitations
    citations,        \* ChatState.citations
    trace,            \* history variable: the steps the running turn has executed
    outcome,          \* what the last finished call returned or raised
    initial,          \* history variable: the store when the concurrent callers started
    thr               \* each concurrent caller's position and locals inside add_message

vars == <<max_history, conversations, clock, appended, vector_store, pc, turn,
          enhanced_query, retrieved_docs, full_response, answer, actual_citations,
          citations, trace, outcome, initial, thr>>

(***************************************************************************)
(* Python str operations, computed as CPython computes them.               *)
(***************************************************************************)

\* The first index in lo..hi satisfying P, or 0.
FirstIndex(lo, hi, P(_)) ==
    IF \E i \in lo..hi : P(i)
    THEN CHOOSE i \in lo..hi : P(i) /\ \A j \in lo..(i - 1) : ~P(j)
    ELSE 0

\* s[:n] for n >= 0
Head_n(s, n) == SubSeq(s, 1, IF n < Len(s) THEN n ELSE Len(s))

\* s[-n:] for the int n >= 0.  -0 is 0, so s[-0:] is s[0:], the whole list.
Tail_n(s, n) ==
    IF n = 0 \/ n >= Len(s) THEN s ELSE SubSeq(s, Len(s) - n + 1, Len(s))

\* str.startswith
startswith(s, p) == Len(p) <= Len(s) /\ SubSeq(s, 1, Len(p)) = p

\* str.find(sub, from): 1-based index of the first occurrence at or after from, or 0
find(s, sub, from) ==
    FirstIndex(from, Len(s) - Len(sub) + 1,
               LAMBDA i : SubSeq(s, i, i + Len(sub) - 1) = sub)

\* sub in s
contains(s, sub) == Len(sub) = 0 \/ find(s, sub, 1) # 0

\* str.split(sep) for a non-empty sep: every non-overlapping occurrence, left to right
RECURSIVE split(_, _)
split(s, sep) ==
    LET i == find(s, sep, 1)
    IN  IF i = 0 THEN <<s>>
        ELSE <<SubSeq(s, 1, i - 1)>> \o split(SubSeq(s, i + Len(sep), Len(s)), sep)

\* str.split(sep, 1): at most one split, at the first occurrence
split1(s, sep) ==
    LET i == find(s, sep, 1)
    IN  IF i = 0 THEN <<s>>
        ELSE <<SubSeq(s, 1, i - 1), SubSeq(s, i + Len(sep), Len(s))>>

\* str.replace(old, ""): every non-overlapping occurrence removed
RECURSIVE replace_empty(_, _)
replace_empty(s, old) ==
    LET i == find(s, old, 1)
    IN  IF i = 0 THEN s
        ELSE SubSeq(s, 1, i - 1) \o replace_empty(SubSeq(s, i + Len(old), Len(s)), old)

\* str.isspace for one character (the whitespace of the model's alphabet)
Whitespace == {" ", "\n", "\t", "\r"}

\* str.strip()
strip(s) ==
    LET a == FirstIndex(1, Len(s), LAMBDA i : s[i] \notin Whitespace)
        k == FirstIndex(1, Len(s), LAMBDA i : s[Len(s) + 1 - i] \notin Whitespace)
    IN  IF a = 0 THEN <<>> ELSE SubSeq(s, a, Len(s) + 1 - k)

\* sep.join(parts)
RECURSIVE join(_, _)
join(sep, parts) ==
    IF parts = <<>> THEN <<>>
    ELSE IF Len(parts) = 1 THEN parts[1]
    ELSE parts[1] \o sep \o join(sep, Tail(parts))

\* str.lower(): the cased characters of the model's alphabet
UpperToLower == [c \in {"A", "K", "Z"} |-> CASE c = "A" -> "a" [] c = "K" -> "k" [] c = "Z" -> "z"]
lower(s) == [i \in 1..Len(s) |-> IF s[i] \in DOMAIN UpperToLower THEN UpperToLower[s[i]] ELSE s[i]]

Digits == {"0", "1", "2", "3", "4", "5", "6", "7", "8", "9"}
DigitValue(c) == CHOOSE n \in 0..9 : <<"0", "1", "2", "3", "4", "5", "6", "7", "8", "9">>[n + 1] = c

\* The characters re's \w matches (str patterns: Unicode alphanumerics and "_").
Ideographs == {"wen", "dang", "shi", "ji", "yin", "yong", "nei", "rong", "mao", "be", "yi",
               "zhong", "dong", "wu", "xi", "huan", "shui", "jiao", "zuo", "shen", "me"}
Letters == {"a", "b", "k", "w", "x", "y", "z", "A", "K", "Z"}
WordChars == Ideographs \cup Letters \cup Digits \cup {"_"}

\* re.sub(r'[^\w\s]', '', s)
IsWordOrSpace(c) == c \in WordChars \/ c \in Whitespace
re_sub_nonword(s) == SelectSeq(s, IsWordOrSpace)

\* str.split() without a separator: runs of whitespace separate, no empty strings
RECURSIVE split_ws(_)
split_ws(s) ==
    LET t == strip(s)
        e == FirstIndex(1, Len(t), LAMBDA i : t[i] \in Whitespace)
    IN  IF t = <<>> THEN <<>>
        ELSE IF e = 0 THEN <<t>>
        ELSE <<SubSeq(t, 1, e - 1)>> \o split_ws(SubSeq(t, e, Len(t)))

\* int(s) for a str: surrounding whitespace, an optional sign, decimal digits with
\* single underscores between digits.  [ok |-> FALSE] is the ValueError it raises.
RECURSIVE DigitsValue(_, _)
DigitsValue(d, acc) ==
    IF d = <<>> THEN acc
    ELSE IF d[1] = "_" THEN DigitsValue(Tail(d), acc)
    ELSE DigitsValue(Tail(d), 10 * acc + DigitValue(d[1]))

int(s) ==
    LET t == strip(s)
        signed == t # <<>> /\ t[1] \in {"+", "-"}
        d == IF signed THEN Tail(t) ELSE t
        wellformed ==
            /\ d # <<>>
            /\ d[1] \in Digits
            /\ d[Len(d)] \in Digits
            /\ \A i \in 1..Len(d) : d[i] \in Digits \cup {"_"}
            /\ \A i \in 1..(Len(d) - 1) : ~(d[i] = "_" /\ d[i + 1] = "_")
    IN  IF ~wellformed THEN [ok |-> FALSE, value |-> 0]
        ELSE [ok |-> TRUE,
              value |-> IF signed /\ t[1] = "-" THEN 0 - DigitsValue(d, 0) ELSE DigitsValue(d, 0)]

(***************************************************************************)
(* chains/chat_agent.py: the citation resolver (pure functions).           *)
(***************************************************************************)

\* str(n) for n >= 0, as the f-string renders i + 1
RECURSIVE str_int(_)
str_int(n) ==
    IF n < 10 THEN <<(<<"0", "1", "2", "3", "4", "5", "6", "7", "8", "9">>)[n + 1]>>
    ELSE str_int(n \div 10) \o str_int(n % 10)

citation_marker == <<"lb", "shi", "ji", "yin", "yong", "nei", "rong", "rb">>
doc_label == <<"wen", "dang">>
ellipsis == <<".", ".", ".">>
full_stop == <<"juhao">>

\* the inline reference token of chunk index n (1-based), line 189
inline_token(n) == <<"lb">> \o doc_label \o str_int(n) \o <<"rb">>

\* line 176: the exceptions the try block of the line loop catches
caught_NoneCaught(exc) == FALSE
caught(exc) == exc = "ValueError"

\* lines 171-177: the label's int() result n and the two parts of the line
line_outcome(n, parts) ==
    IF n.ok
    THEN [kind |-> "citation", cit |-> [doc_id |-> n.value, content |-> strip(parts[2])]]
    ELSE IF caught("ValueError") THEN [kind |-> "skipped"]
    ELSE [kind |-> "raise", exc |-> "ValueError"]

\* lines 170-171: the unpacking of line.split(':', 1) and the int() of the label;
\* both raise ValueError
split_line(parts) ==
    line_outcome(IF Len(parts) = 2
                 THEN int(strip(replace_empty(parts[1], doc_label)))
                 ELSE [ok |-> FALSE, value |-> 0],
                 parts)

\* line 168, on the stripped line
matched_line(line) ==
    IF startswith(line, doc_label) /\ contains(line, <<":">>)
    THEN split_line(split1(line, <<":">>))
    ELSE [kind |-> "nomatch"]

\* lines 167-177: one line of the citation block.
\*   kind "citation": the line appended a RawCitation
\*   kind "nomatch":  the if at line 168 was false
\*   kind "raise":    an exception left the try block (exc names it)
\*   kind "skipped":  the except clause ran `continue`
parse_line(raw_line) == matched_line(strip(raw_line))

\* lines 164-177: the loop over the lines, given each line's outcome; an exception
\* that is not caught ends the loop
loop_result(rs) ==
    LET stop == FirstIndex(1, Len(rs), LAMBDA i : rs[i].kind = "raise")
        done == IF stop = 0 THEN rs ELSE SubSeq(rs, 1, stop - 1)
        hits == SelectSeq(done, LAMBDA r : r.kind = "citation")
    IN  [raised |-> IF stop = 0 THEN "none" ELSE rs[stop].exc,
         actual_citations |-> [i \in 1..Len(hits) |-> hits[i].cit]]
parse_lines(lines) == loop_result([i \in 1..Len(lines) |-> parse_line(lines[i])])

\* lines 159-161: the text handed to the line loop
citation_block(full) == strip(split(full, citation_marker)[2])

\* lines 160 and 179: the answer before the marker and the result of the line loop
marked_response(pre, r) ==
    [answer |-> strip(pre), actual_citations |-> r.actual_citations, raised |-> r.raised]

\* lines 154-182
parse_response(full) ==
    IF contains(full, citation_marker)
    THEN marked_response(split(full, citation_marker)[1],
                         parse_lines(split(citation_block(full), <<"\n">>)))
    ELSE [answer |-> full, actual_citations |-> <<>>, raised |-> "none"]

\* line 206: the question's keywords
question_keywords(question) ==
    LET words == split_ws(re_sub_nonword(lower(question)))
    IN  SelectSeq(words, LAMBDA w : Len(w) > 1)

\* line 212
RECURSIVE strip_nonempty(_)
strip_nonempty(parts) ==
    IF parts = <<>> THEN <<>>
    ELSE IF strip(parts[1]) # <<>> THEN <<strip(parts[1])>> \o strip_nonempty(Tail(parts))
    ELSE strip_nonempty(Tail(parts))
sentences_of(content) == strip_nonempty(split(content, full_stop))

\* line 218
matches_keyword(sentence, keywords) ==
    \E k \in 1..Len(keywords) : contains(lower(sentence), keywords[k])

\* lines 209, 220, 227: the three length limits
NoKeywordLimit_SameAsHead == 200 - 50
NoKeywordLimit == 200
ExcerptLimit_Doubled == NoKeywordLimit + 100
ExcerptLimit == 150
HeadLimit_Short == ExcerptLimit \div 15
HeadLimit == 150

\* lines 215-221: the loop collecting sentences, with its break
RECURSIVE collect_sentences(_, _, _)
collect_sentences(sentences, keywords, acc) ==
    IF sentences = <<>> THEN acc
    ELSE IF matches_keyword(sentences[1], keywords)
    THEN LET acc2 == Append(acc, sentences[1])
         IN  IF Len(join(full_stop, acc2)) > ExcerptLimit THEN acc2
             ELSE collect_sentences(Tail(sentences), keywords, acc2)
    ELSE collect_sentences(Tail(sentences), keywords, acc)

\* which return statement of _find_relevant_content runs (209, 224 or 227)
excerpt_branch(content, question) ==
    LET keywords == question_keywords(question)
    IN  IF keywords = <<>> THEN "no_keywords"
        ELSE IF collect_sentences(sentences_of(content), keywords, <<>>) # <<>>
        THEN "sentences"
        ELSE "head"

\* lines 200-227
find_relevant_content(content, question) ==
    LET keywords == question_keywords(question)
        relevant_sentences == collect_sentences(sentences_of(content), keywords, <<>>)
    IN  IF keywords = <<>>
        THEN Head_n(content, NoKeywordLimit)
                 \o (IF Len(content) > NoKeywordLimit THEN ellipsis ELSE <<>>)
        ELSE IF relevant_sentences # <<>>
        THEN join(full_stop, relevant_sentences) \o full_stop
        ELSE Head_n(content, HeadLimit)
                 \o (IF Len(content) > HeadLimit THEN ellipsis ELSE <<>>)

\* lines 184-198
RECURSIVE fallback_from(_, _, _, _)
fallback_from(i, ans, documents, question) ==
    IF i > Len(documents) THEN <<>>
    ELSE (IF contains(ans, inline_token(i))
          THEN <<[doc_id |-> i,
                  content |-> find_relevant_content(documents[i].page_content, question)]>>
          ELSE <<>>)
         \o fallback_from(i + 1, ans, documents, question)
fallback_extract_citations(ans, documents, question) ==
    fallback_from(1, ans, documents, question)

\* line 235: the range test of the promotion
in_range_NoLowerBound(doc_id, n) == doc_id <= n
in_range(doc_id, n) == 1 <= doc_id /\ doc_id <= n

\* documents[k] for a Python index k that raises no IndexError: -n <= k < n
py_index(documents, k) ==
    IF k >= 0 THEN documents[k + 1] ELSE documents[Len(documents) + k + 1]

\* lines 233-241: one RawCitation.
\*   kind "dropped":  the range test at line 235 was false
\*   kind "raise":    documents[doc_id - 1] raised IndexError
\*   kind "citation": the ResolvedCitation appended
promote(c, documents) ==
    IF ~in_range(c.doc_id, Len(documents)) THEN [kind |-> "dropped"]
    ELSE IF c.doc_id - 1 >= Len(documents) \/ c.doc_id - 1 < 0 - Len(documents)
    THEN [kind |-> "raise", exc |-> "IndexError"]
    ELSE [kind |-> "citation",
          cit |-> [doc_id |-> c.doc_id,
                   content |-> c.content,
                   metadata |-> py_index(documents, c.doc_id - 1).metadata]]

\* a variant of promotion_result: each citation is put at the front of the list
promotion_result_Prepends(rs) ==
    LET r == loop_result(rs)
        n == Len(r.actual_citations)
    IN  [raised |-> r.raised,
         citations |-> IF r.raised = "none"
                       THEN [i \in 1..n |-> r.actual_citations[n + 1 - i]]
                       ELSE <<>>]

\* lines 229-243
promotion_result(rs) ==
    LET r == loop_result(rs)
    IN  [raised |-> r.raised,
         citations |-> IF r.raised = "none" THEN r.actual_citations ELSE <<>>]
build_citations_from_actual_usage(actual, documents) ==
    promotion_result([i \in 1..Len(actual) |-> promote(actual[i], documents)])

(***************************************************************************)
(* chains/chat_agent.py: query enrichment.                                 *)
(***************************************************************************)

\* lines 64 and 69: the two window sizes
HistoryWindow_AsPromptWindow == 3 + 2
HistoryWindow == 3
QuestionWindow == 2

\* lines 63-66: the contents of the user messages among the given entries
RECURSIVE user_contents(_)
user_contents(msgs) ==
    IF msgs = <<>> THEN <<>>
    ELSE (IF msgs[1].role = "user" THEN <<msgs[1].content>> ELSE <<>>)
         \o user_contents(Tail(msgs))

\* lines 64 and 69: the two windows
recent_window_All(history) == history
recent_window(history) == Tail_n(history, HistoryWindow)
context_questions(recent_questions) == Tail_n(recent_questions, QuestionWindow)

\* lines 57-72
enhance_query(question, history) ==
    IF history = <<>> THEN question
    ELSE LET recent_questions == user_contents(recent_window(history))
         IN  IF recent_questions # <<>>
             THEN join(<<" ">>, context_questions(recent_questions)) \o <<" ">> \o question
             ELSE question

(***************************************************************************)
(* core/conversation_manager.py: the store.  A dict is a function whose    *)
(* domain is the set of its keys; a dict of metadata is a set of           *)
(* <<key, value>> pairs.                                                   *)
(***************************************************************************)

DefaultMaxHistory == 10

Put(dict, key, value) ==
    [d \in DOMAIN dict \cup {key} |-> IF d = key THEN value ELSE dict[d]]

Delete(dict, key) == [d \in DOMAIN dict \ {key} |-> dict[d]]

EmptyDict == [d \in {} |-> <<>>]

\* lines 16-21: `metadata or {}`
Message(role, content, now, metadata) ==
    [role |-> role, content |-> content, timestamp |-> now, metadata |-> metadata]

\* lines 26-27: the trim (and a variant that keeps the oldest messages)
trim_KeepOldest(list, H) == IF Len(list) > H THEN Head_n(list, H) ELSE list
trim(list, H) == IF Len(list) > H THEN Tail_n(list, H) ELSE list

\* lines 11-27, run without interruption
add_message(convs, H, conversation_id, message) ==
    LET c1 == IF conversation_id \notin DOMAIN convs
              THEN Put(convs, conversation_id, <<>>) ELSE convs
        c2 == Put(c1, conversation_id, Append(c1[conversation_id], message))
    IN  Put(c2, conversation_id, trim(c2[conversation_id], H))

\* lines 31-33
get_conversation_history(convs, conversation_id) ==
    IF conversation_id \in DOMAIN convs THEN convs[conversation_id] ELSE <<>>

\* a variant of clear_conversation: the whole store is emptied
clear_conversation_All(convs, conversation_id) ==
    IF conversation_id \in DOMAIN convs THEN EmptyDict ELSE convs

\* lines 35-38
clear_conversation(convs, conversation_id) ==
    IF conversation_id \in DOMAIN convs THEN Delete(convs, conversation_id) ELSE convs

(***************************************************************************)
(* Bounds and input sets.                                                  *)
(***************************************************************************)

MaxH == 2          \* max_history ranges over 0..MaxH
MaxClock == 3      \* add_message calls in one behaviour of the store
MaxFrags == 4      \* fragments concatenated into one raw model output
MaxHist == 4       \* history length handed to the enrichment
MaxSent == 3       \* segments concatenated into one chunk content
MaxCalls == 1      \* add_message calls per concurrent caller
MaxSessionClock == 14   \* add_message calls in one session of sequential turns

\* all sequences over S of length 0..n
RECURSIVE SeqsUpTo(_, _)
SeqsUpTo(S, n) ==
    IF n = 0 THEN {<<>>}
    ELSE LET shorter == SeqsUpTo(S, n - 1)
         IN  shorter \cup {Append(q, x) : q \in {r \in shorter : Len(r) = n - 1}, x \in S}

\* the concatenation of a sequence of strings
RECURSIVE concat(_)
concat(parts) == IF parts = <<>> THEN <<>> ELSE parts[1] \o concat(Tail(parts))

\* n copies of the string u
repeat(u, n) == [i \in 1..(n * Len(u)) |-> u[((i - 1) % Len(u)) + 1]]

ConvIds == {"c1", "c2"}
Roles == {"user", "assistant"}
Contents == {<<"a">>, <<"b">>}
NoMetadata == {}

\* the chunks of the cat scenario and a second chunk
CatContent == <<"mao", "be", "yi", "zhong", "dong", "wu", "juhao",
                "mao", "xi", "huan", "shui", "jiao", "juhao">>
CatQuestion == <<"mao", "xi", "huan", "zuo", "shen", "me">>
SpacedQuestion == <<"mao", " ", "xi", "huan">>
Doc1 == [page_content |-> CatContent, metadata |-> [filename |-> "a.txt"]]
Doc2 == [page_content |-> <<"k", "k", " ", "a", "juhao", "z", "z", "juhao">>,
         metadata |-> [filename |-> "b.txt"]]
DocLists == {<<>>, <<Doc1>>, <<Doc1, Doc2>>}
Questions == {CatQuestion, SpacedQuestion}

\* the fragments a raw model output is made of
Fragments ==
    { <<"a", " ">>,
      citation_marker,
      <<"\n", "wen", "dang", "1", ":", " ", "x">>,
      <<"\n", "wen", "dang", "2", ":", "y", " ">>,
      <<"\n", "wen", "dang", "x", ":", " ", "y">>,
      <<"\n", "wen", "dang", "0", ":", "w">>,
      inline_token(1),
      inline_token(2) }
RawTexts == {concat(fs) : fs \in SeqsUpTo(Fragments, MaxFrags)}

\* the raw outputs the model returns inside a chat turn
TurnRawTexts ==
    { <<"a">> \o inline_token(1),
      <<"a", "\n">> \o citation_marker \o <<"\n", "wen", "dang", "1", ":", " ", "x">> }
TurnDocLists == {<<>>, <<Doc1>>}

\* histories handed to the enrichment
HistoryMessages == {[role |-> r, content |-> c] : r \in Roles, c \in Contents}
Histories == SeqsUpTo(HistoryMessages, MaxHist)

\* chunk contents and questions for the excerpt computation
Segments ==
    { <<"k", "k", "juhao">>,
      repeat(<<"z">>, ExcerptLimit \div 2) \o full_stop,
      <<"K", "k">> \o repeat(<<"z">>, ExcerptLimit \div 2) \o full_stop,
      repeat(<<"k">>, ExcerptLimit + 1),
      repeat(<<"z">>, NoKeywordLimit + 1),
      <<" ">> }
ExcerptContents == {concat(fs) : fs \in SeqsUpTo(Segments, MaxSent)} \cup {CatContent}
ExcerptQuestions ==
    { <<"k", "k">>, <<"K", "K", "!", " ", "z">>, <<"k">>, <<>>, CatQuestion, SpacedQuestion }

(***************************************************************************)
(* The state machine.                                                      *)
(***************************************************************************)

NoTurn == [question |-> <<>>, conversation_id |-> "none", history |-> <<>>,
           before |-> EmptyDict]
NoOutcome == [kind |-> "none"]

\* the part of the state one specification does not use keeps these values
StoreIdle ==
    /\ max_history = DefaultMaxHistory
    /\ conversations = EmptyDict
    /\ clock = 0
    /\ appended = [c \in ConvIds |-> <<>>]
TurnIdle ==
    /\ vector_store = "None"
    /\ pc = "idle"
    /\ turn = NoTurn
    /\ enhanced_query = <<>>
    /\ retrieved_docs = <<>>
    /\ full_response = <<>>
    /\ answer = <<>>
    /\ actual_citations = <<>>
    /\ citations = <<>>
    /\ trace = <<>>
    /\ outcome = NoOutcome
ThreadsIdle ==
    /\ initial = EmptyDict
    /\ thr = <<>>

store_vars == <<max_history, conversations, clock, appended>>
resolve_vars == <<full_response, answer, actual_citations, citations>>
thread_vars == <<initial, thr>>
turn_vars == <<vector_store, pc, turn, enhanced_query, retrieved_docs, resolve_vars, trace, outcome>>

\* ---- the store, called directly (run.py line 217, and any other caller)

\* ConversationManager.add_message
AddMessage(c, role, content) ==
    /\ pc = "idle"
    /\ clock < MaxClock
    /\ LET m == Message(role, content, clock, NoMetadata)
       IN  /\ conversations' = add_message(conversations, max_history, c, m)
           /\ appended' = [appended EXCEPT ![c] = Append(@, m)]
    /\ clock' = clock + 1
    /\ outcome' = NoOutcome
    /\ UNCHANGED <<max_history, vector_store, pc, turn, enhanced_query, retrieved_docs,
                   resolve_vars, trace, thread_vars>>

\* ConversationManager.clear_conversation
ClearConversation(c) ==
    /\ pc = "idle"
    /\ conversations' = clear_conversation(conversations, c)
    /\ appended' = [appended EXCEPT ![c] = <<>>]
    /\ outcome' = NoOutcome
    /\ UNCHANGED <<max_history, clock, vector_store, pc, turn, enhanced_query,
                   retrieved_docs, resolve_vars, trace, thread_vars>>

\* ConversationManager.get_conversation_history
GetConversationHistory(c) ==
    /\ pc = "idle"
    /\ outcome' = [kind |-> "return", of |-> "get_conversation_history",
                   conversation_id |-> c,
                   history |-> get_conversation_history(conversations, c)]
    /\ UNCHANGED <<store_vars, vector_store, pc, turn, enhanced_query, retrieved_docs,
                   resolve_vars, trace, thread_vars>>

\* VectorStoreManager.load_vector_store / create_vector_store: the index exists afterwards
LoadVectorStore ==
    /\ pc = "idle"
    /\ vector_store = "None"
    /\ vector_store' = "index"
    /\ UNCHANGED <<store_vars, pc, turn, enhanced_query, retrieved_docs, resolve_vars,
                   trace, outcome, thread_vars>>

\* ---- ChatAgent.chat, one step per call it makes

TopK == 4

Raise(exc, from) == [kind |-> "raise", exc |-> exc, from |-> from, before |-> turn.before]

\* chat is left, by return or by an exception: its locals are gone
LeaveChat(result) ==
    /\ outcome' = result
    /\ pc' = "idle"
    /\ turn' = NoTurn
    /\ enhanced_query' = <<>>
    /\ retrieved_docs' = <<>>
    /\ full_response' = <<>>
    /\ answer' = <<>>
    /\ actual_citations' = <<>>
    /\ citations' = <<>>

\* a variant of ChatStart: the user message is stored before the workflow runs
ChatStart_PersistsUserFirst(q, c) ==
    /\ pc = "idle"
    /\ clock + 2 <= MaxClock
    /\ turn' = [question |-> q, conversation_id |-> c,
                history |-> get_conversation_history(conversations, c),
                before |-> conversations]
    /\ conversations' = add_message(conversations, max_history, c,
                                    Message("user", q, clock, NoMetadata))
    /\ appended' = [appended EXCEPT ![c] = Append(@, Message("user", q, clock, NoMetadata))]
    /\ clock' = clock + 1
    /\ trace' = <<"read_history">>
    /\ pc' = "retrieve"
    /\ outcome' = NoOutcome
    /\ UNCHANGED <<max_history, vector_store, enhanced_query, retrieved_docs,
                   resolve_vars, thread_vars>>

\* lines 245-254: chat is entered and reads the history; limit bounds the clock
ChatEnter(q, c, limit) ==
    /\ pc = "idle"
    /\ clock + 2 <= limit
    /\ turn' = [question |-> q, conversation_id |-> c,
                history |-> get_conversation_history(conversations, c),
                before |-> conversations]
    /\ trace' = <<"read_history">>
    /\ pc' = "retrieve"
    /\ outcome' = NoOutcome
    /\ UNCHANGED <<store_vars, vector_store, enhanced_query, retrieved_docs,
                   resolve_vars, thread_vars>>
ChatStart(q, c) == ChatEnter(q, c, MaxClock)

\* a variant of Retrieve: an empty chunk list ends the workflow with an empty answer,
\* without the model call and the resolver
Retrieve_ShortCircuitsEmpty ==
    /\ pc = "retrieve"
    /\ trace' = Append(trace, "retrieve")
    /\ \/ /\ vector_store = "None"
          /\ LeaveChat(Raise("ValueError", "retrieve"))
       \/ /\ vector_store # "None"
          /\ enhanced_query' = enhance_query(turn.question, turn.history)
          /\ retrieved_docs' \in {d \in TurnDocLists : Len(d) <= TopK}
          /\ pc' = IF retrieved_docs' = <<>> THEN "add_user" ELSE "generate"
          /\ UNCHANGED <<turn, resolve_vars, outcome>>
    /\ UNCHANGED <<store_vars, vector_store, thread_vars>>

\* lines 45-55 (the retrieve node) with similarity_search, vector_store.py lines 76-83;
\* doc_lists are the chunk lists the index can return
RetrieveFrom(doc_lists) ==
    /\ pc = "retrieve"
    /\ trace' = Append(trace, "retrieve")
    /\ \/ /\ vector_store = "None"
          /\ LeaveChat(Raise("ValueError", "retrieve"))
       \/ /\ vector_store # "None"
          /\ enhanced_query' = enhance_query(turn.question, turn.history)
          /\ retrieved_docs' \in {d \in doc_lists : Len(d) <= TopK}
          /\ pc' = "generate"
          /\ UNCHANGED <<turn, resolve_vars, outcome>>
    /\ UNCHANGED <<store_vars, vector_store, thread_vars>>
Retrieve == RetrieveFrom(TurnDocLists)

\* lines 74-137 (the generate_answer node up to the model call): the call returns a
\* raw text, one of raw_texts, or raises
GenerateFrom(raw_texts) ==
    /\ pc = "generate"
    /\ trace' = Append(trace, "generate")
    /\ \/ LeaveChat(Raise("GenerationFailed", "generate"))
       \/ /\ full_response' \in raw_texts
          /\ pc' = "parse"
          /\ UNCHANGED <<turn, enhanced_query, retrieved_docs, answer, actual_citations,
                         citations, outcome>>
    /\ UNCHANGED <<store_vars, vector_store, thread_vars>>
Generate == GenerateFrom(TurnRawTexts)

\* line 140: the assignment of what _parse_response returned, or its exception
Parsed(r) ==
    IF r.raised # "none"
    THEN LeaveChat(Raise(r.raised, "parse"))
    ELSE /\ answer' = r.answer
         /\ actual_citations' = r.actual_citations
         /\ pc' = "fallback"
         /\ UNCHANGED <<turn, enhanced_query, retrieved_docs, full_response,
                        citations, outcome>>

\* line 140: Stage A
ParseResponse ==
    /\ pc = "parse"
    /\ trace' = Append(trace, "parse")
    /\ Parsed(parse_response(full_response))
    /\ UNCHANGED <<store_vars, vector_store, thread_vars>>

\* line 143: `if not actual_citations`
needs_fallback_Never(raw_citations) == FALSE
needs_fallback(raw_citations) == raw_citations = <<>>

\* a variant of FallbackIfEmpty: the question is read back from the store (the last
\* message of a stored conversation) when there is one
FallbackIfEmpty_ReadsStore ==
    /\ pc = "fallback"
    /\ IF needs_fallback(actual_citations)
       THEN /\ actual_citations' =
                   fallback_extract_citations(
                       answer, retrieved_docs,
                       IF \E c \in DOMAIN conversations : conversations[c] # <<>>
                       THEN LET c == CHOOSE c \in DOMAIN conversations : conversations[c] # <<>>
                            IN  conversations[c][Len(conversations[c])].content
                       ELSE turn.question)
            /\ trace' = Append(trace, "fallback")
       ELSE UNCHANGED <<actual_citations, trace>>
    /\ pc' = "build"
    /\ UNCHANGED <<store_vars, vector_store, turn, enhanced_query, retrieved_docs,
                   full_response, answer, citations, outcome, thread_vars>>

\* a variant of FallbackIfEmpty: the tokens are looked for in the whole raw text
FallbackIfEmpty_SearchesRawText ==
    /\ pc = "fallback"
    /\ IF needs_fallback(actual_citations)
       THEN /\ actual_citations' =
                   fallback_extract_citations(full_response, retrieved_docs, turn.question)
            /\ trace' = Append(trace, "fallback")
       ELSE UNCHANGED <<actual_citations, trace>>
    /\ pc' = "build"
    /\ UNCHANGED <<store_vars, vector_store, turn, enhanced_query, retrieved_docs,
                   full_response, answer, citations, outcome, thread_vars>>

\* lines 143-144: Stage B, when Stage A gave nothing
FallbackIfEmpty ==
    /\ pc = "fallback"
    /\ IF needs_fallback(actual_citations)
       THEN /\ actual_citations' =
                   fallback_extract_citations(answer, retrieved_docs, turn.question)
            /\ trace' = Append(trace, "fallback")
       ELSE UNCHANGED <<actual_citations, trace>>
    /\ pc' = "build"
    /\ UNCHANGED <<store_vars, vector_store, turn, enhanced_query, retrieved_docs,
                   full_response, answer, citations, outcome, thread_vars>>

\* line 147: the assignment of what the promotion returned, or its exception
Built(r) ==
    IF r.raised # "none"
    THEN LeaveChat(Raise(r.raised, "build"))
    ELSE /\ citations' = r.citations
         /\ pc' = "add_user"
         /\ UNCHANGED <<turn, enhanced_query, retrieved_docs, full_response,
                        answer, actual_citations, outcome>>

\* lines 147-152: promotion; generate_answer returns
BuildCitations ==
    /\ pc = "build"
    /\ trace' = Append(trace, "build")
    /\ Built(build_citations_from_actual_usage(actual_citations, retrieved_docs))
    /\ UNCHANGED <<store_vars, vector_store, thread_vars>>

\* line 260
AddUser ==
    /\ pc = "add_user"
    /\ turn.conversation_id \in ConvIds
    /\ LET m == Message("user", turn.question, clock, NoMetadata)
       IN  /\ conversations' = add_message(conversations, max_history,
                                           turn.conversation_id, m)
           /\ appended' = [appended EXCEPT ![turn.conversation_id] = Append(@, m)]
    /\ clock' = clock + 1
    /\ trace' = Append(trace, "add_user")
    /\ pc' = "add_assistant"
    /\ UNCHANGED <<max_history, vector_store, turn, enhanced_query, retrieved_docs,
                   resolve_vars, outcome, thread_vars>>

\* lines 261-266
AddAssistant ==
    /\ pc = "add_assistant"
    /\ LET m == Message("assistant", answer, clock, {<<"citations", citations>>})
       IN  /\ conversations' = add_message(conversations, max_history,
                                           turn.conversation_id, m)
           /\ appended' = [appended EXCEPT ![turn.conversation_id] = Append(@, m)]
    /\ clock' = clock + 1
    /\ trace' = Append(trace, "add_assistant")
    /\ pc' = "return"
    /\ UNCHANGED <<max_history, vector_store, turn, enhanced_query, retrieved_docs,
                   resolve_vars, outcome, thread_vars>>

\* lines 268-278
Return ==
    /\ pc = "return"
    /\ trace' = Append(trace, "return")
    /\ LeaveChat([kind |-> "return", of |-> "chat", answer |-> answer,
                  citations |-> citations,
                  retrieved_docs |-> [i \in 1..Len(retrieved_docs) |->
                      [content |-> retrieved_docs[i].page_content,
                       metadata |-> retrieved_docs[i].metadata]],
                  before |-> turn.before])
    /\ UNCHANGED <<store_vars, vector_store, thread_vars>>

\* ---- the store and the chat turn, one caller
Init ==
    /\ max_history \in 0..MaxH
    /\ conversations = EmptyDict
    /\ clock = 0
    /\ appended = [c \in ConvIds |-> <<>>]
    /\ TurnIdle
    /\ ThreadsIdle

Next ==
    \/ \E c \in ConvIds, role \in Roles : AddMessage(c, role, <<"a">>)
    \/ \E c \in ConvIds : ClearConversation(c)
    \/ \E c \in ConvIds : GetConversationHistory(c)
    \/ LoadVectorStore
    \/ \E q \in Contents, c \in ConvIds : ChatStart(q, c)
    \/ Retrieve
    \/ Generate
    \/ ParseResponse
    \/ FallbackIfEmpty
    \/ BuildCitations
    \/ AddUser
    \/ AddAssistant
    \/ Return

Spec == Init /\ [][Next]_vars

\* ---- the citation resolver on every raw output, chunk list and question
InitResolve ==
    /\ StoreIdle
    /\ ThreadsIdle
    /\ vector_store = "index"
    /\ pc = "parse"
    /\ \E q \in Questions : turn = [NoTurn EXCEPT !.question = q]
    /\ enhanced_query = <<>>
    /\ retrieved_docs \in DocLists
    /\ full_response \in RawTexts
    /\ answer = <<>>
    /\ actual_citations = <<>>
    /\ citations = <<>>
    /\ trace = <<>>
    /\ outcome = NoOutcome

NextResolve == ParseResponse \/ FallbackIfEmpty \/ BuildCitations

SpecResolve == InitResolve /\ [][NextResolve]_vars

\* a message stored before the behaviour starts
InitialMessage == Message("user", <<"x">>, 0, NoMetadata)

\* ---- the citation resolver run twice on the same inputs, the store changing between
TwiceRawTexts == {concat(fs) : fs \in SeqsUpTo(Fragments, MaxFrags - 2)}

\* lines 139-152 have run once: the caller keeps the result, the store changes
\* (add_message or clear_conversation), and the same inputs are resolved again
ResolveAgain ==
    /\ pc = "add_user"
    /\ outcome = NoOutcome
    /\ outcome' = [kind |-> "return", of |-> "generate_answer",
                   answer |-> answer, citations |-> citations]
    /\ \E c \in ConvIds :
           \/ \E role \in Roles, content \in Contents :
                  conversations' = add_message(conversations, max_history, c,
                                               Message(role, content, clock, NoMetadata))
           \/ conversations' = clear_conversation(conversations, c)
    /\ clock' = clock + 1
    /\ pc' = "parse"
    /\ answer' = <<>>
    /\ actual_citations' = <<>>
    /\ citations' = <<>>
    /\ trace' = <<>>
    /\ UNCHANGED <<max_history, appended, vector_store, turn, enhanced_query,
                   retrieved_docs, full_response, thread_vars>>

InitTwice ==
    /\ max_history = DefaultMaxHistory
    /\ conversations \in {EmptyDict, [c \in {"c1"} |-> <<InitialMessage>>]}
    /\ clock = 1
    /\ appended = [c \in ConvIds |-> <<>>]
    /\ ThreadsIdle
    /\ vector_store = "index"
    /\ pc = "parse"
    /\ \E q \in Questions : turn = [NoTurn EXCEPT !.question = q]
    /\ enhanced_query = <<>>
    /\ retrieved_docs \in DocLists
    /\ full_response \in TwiceRawTexts
    /\ answer = <<>>
    /\ actual_citations = <<>>
    /\ citations = <<>>
    /\ trace = <<>>
    /\ outcome = NoOutcome

NextTwice == ParseResponse \/ FallbackIfEmpty \/ BuildCitations \/ ResolveAgain

SpecTwice == InitTwice /\ [][NextTwice]_vars

\* ---- the fallback excerpt on every chunk content and question
FindRelevantContent ==
    /\ pc = "excerpt"
    /\ LeaveChat([kind |-> "return", of |-> "_find_relevant_content",
                  content |-> retrieved_docs[1].page_content,
                  question |-> turn.question,
                  excerpt |-> find_relevant_content(retrieved_docs[1].page_content,
                                                    turn.question)])
    /\ UNCHANGED <<store_vars, vector_store, trace, thread_vars>>

InitExcerpt ==
    /\ StoreIdle
    /\ ThreadsIdle
    /\ vector_store = "index"
    /\ pc = "excerpt"
    /\ \E q \in ExcerptQuestions : turn = [NoTurn EXCEPT !.question = q]
    /\ enhanced_query = <<>>
    /\ \E content \in ExcerptContents :
           retrieved_docs = <<[page_content |-> content, metadata |-> [filename |-> "a.txt"]]>>
    /\ full_response = <<>>
    /\ answer = <<>>
    /\ actual_citations = <<>>
    /\ citations = <<>>
    /\ trace = <<>>
    /\ outcome = NoOutcome

NextExcerpt == FindRelevantContent

SpecExcerpt == InitExcerpt /\ [][NextExcerpt]_vars

\* ---- the enrichment on every history and question
InitEnhance ==
    /\ StoreIdle
    /\ ThreadsIdle
    /\ vector_store \in {"None", "index"}
    /\ pc = "retrieve"
    /\ \E q \in Contents, h \in Histories :
           turn = [NoTurn EXCEPT !.question = q, !.history = h]
    /\ enhanced_query = <<>>
    /\ retrieved_docs = <<>>
    /\ full_response = <<>>
    /\ answer = <<>>
    /\ actual_citations = <<>>
    /\ citations = <<>>
    /\ trace = <<"read_history">>
    /\ outcome = NoOutcome

NextEnhance == Retrieve

SpecEnhance == InitEnhance /\ [][NextEnhance]_vars

\* ---- two callers inside add_message at once; one step per statement of lines 13-27
Threads == {1, 2}
ThreadContent(t) == IF t = 1 THEN <<"a">> ELSE <<"b">>
ThreadIdle == [pc |-> "idle", conversation_id |-> "none", role |-> "none",
               content |-> <<>>, message |-> <<>>, calls |-> 0]

Call(t, c, role) ==
    /\ thr[t].pc = "idle"
    /\ thr[t].calls < MaxCalls
    /\ thr' = [thr EXCEPT ![t] = [@ EXCEPT !.pc = "check", !.conversation_id = c,
                                           !.role = role, !.content = ThreadContent(t),
                                           !.calls = @ + 1]]
    /\ UNCHANGED <<store_vars, initial, turn_vars>>

\* line 13
CheckPresent(t) ==
    /\ thr[t].pc = "check"
    /\ thr' = [thr EXCEPT ![t].pc = IF thr[t].conversation_id \notin DOMAIN conversations
                                    THEN "create" ELSE "message"]
    /\ UNCHANGED <<store_vars, initial, turn_vars>>

\* line 14
CreateList(t) ==
    /\ thr[t].pc = "create"
    /\ conversations' = Put(conversations, thr[t].conversation_id, <<>>)
    /\ thr' = [thr EXCEPT ![t].pc = "message"]
    /\ UNCHANGED <<max_history, clock, appended, initial, turn_vars>>

\* lines 16-21
BuildMessage(t) ==
    /\ thr[t].pc = "message"
    /\ thr' = [thr EXCEPT ![t] = [@ EXCEPT !.pc = "append",
                   !.message = Message(thr[t].role, thr[t].content, clock, NoMetadata)]]
    /\ clock' = clock + 1
    /\ UNCHANGED <<max_history, conversations, appended, initial, turn_vars>>

\* line 23
AppendMessage(t) ==
    /\ thr[t].pc = "append"
    /\ conversations' = Put(conversations, thr[t].conversation_id,
                            Append(conversations[thr[t].conversation_id], thr[t].message))
    /\ appended' = [appended EXCEPT ![thr[t].conversation_id] = Append(@, thr[t].message)]
    /\ thr' = [thr EXCEPT ![t].pc = "len"]
    /\ UNCHANGED <<max_history, clock, initial, turn_vars>>

\* line 26
CheckLength(t) ==
    /\ thr[t].pc = "len"
    /\ thr' = [thr EXCEPT ![t].pc =
                   IF Len(conversations[thr[t].conversation_id]) > max_history
                   THEN "trim" ELSE "log"]
    /\ UNCHANGED <<store_vars, initial, turn_vars>>

\* line 27
TrimList(t) ==
    /\ thr[t].pc = "trim"
    /\ conversations' = Put(conversations, thr[t].conversation_id,
                            Tail_n(conversations[thr[t].conversation_id], max_history))
    /\ thr' = [thr EXCEPT ![t].pc = "log"]
    /\ UNCHANGED <<max_history, clock, appended, initial, turn_vars>>

\* line 29: add_message returns
ReturnFromAdd(t) ==
    /\ thr[t].pc = "log"
    /\ thr' = [thr EXCEPT ![t].pc = "idle"]
    /\ UNCHANGED <<store_vars, initial, turn_vars>>

InitConc ==
    /\ max_history \in 1..MaxH
    /\ conversations \in {EmptyDict, [c \in {"c1"} |-> <<InitialMessage>>]}
    /\ initial = conversations
    /\ clock = 1
    /\ appended = [c \in ConvIds |-> get_conversation_history(conversations, c)]
    /\ TurnIdle
    /\ thr = [t \in Threads |-> ThreadIdle]

NextConc ==
    \/ \E t \in Threads, c \in ConvIds, role \in Roles : Call(t, c, role)
    \/ \E t \in Threads : CheckPresent(t)
    \/ \E t \in Threads : CreateList(t)
    \/ \E t \in Threads : BuildMessage(t)
    \/ \E t \in Threads : AppendMessage(t)
    \/ \E t \in Threads : CheckLength(t)
    \/ \E t \in Threads : TrimList(t)
    \/ \E t \in Threads : ReturnFromAdd(t)

SpecConc == InitConc /\ [][NextConc]_vars

\* ---- two chat turns on one conversation at once, from the appends on (lines 260-266):
\* each caller calls add_message for its user message, then for its assistant message
TurnConversation == "c1"
PreviousTurn == <<Message("user", <<"x">>, 0, NoMetadata),
                  Message("assistant", <<"x">>, 1, NoMetadata)>>

\* lines 260 and 261: the next add_message call of caller t's turn
TurnCall(t) ==
    /\ thr[t].pc = "idle"
    /\ thr[t].calls < 2
    /\ thr' = [thr EXCEPT ![t] = [@ EXCEPT !.pc = "check",
                                           !.conversation_id = TurnConversation,
                                           !.role = IF thr[t].calls = 0 THEN "user"
                                                    ELSE "assistant",
                                           !.content = ThreadContent(t),
                                           !.calls = @ + 1]]
    /\ UNCHANGED <<store_vars, initial, turn_vars>>

InitTurns ==
    /\ max_history \in {MaxH, DefaultMaxHistory}
    /\ conversations \in {EmptyDict, [c \in {TurnConversation} |-> PreviousTurn]}
    /\ initial = conversations
    /\ clock = 2
    /\ appended = [c \in ConvIds |-> get_conversation_history(conversations, c)]
    /\ TurnIdle
    /\ thr = [t \in Threads |-> ThreadIdle]

NextTurns ==
    \/ \E t \in Threads : TurnCall(t)
    \/ \E t \in Threads : CheckPresent(t)
    \/ \E t \in Threads : CreateList(t)
    \/ \E t \in Threads : BuildMessage(t)
    \/ \E t \in Threads : AppendMessage(t)
    \/ \E t \in Threads : CheckLength(t)
    \/ \E t \in Threads : TrimList(t)
    \/ \E t \in Threads : ReturnFromAdd(t)

SpecTurns == InitTurns /\ [][NextTurns]_vars

\* ---- a session of sequential turns and clears on one conversation: the store is
\* written by chat and clear_conversation only
SessionRawTexts == {<<"a">> \o inline_token(1)}
SessionDocLists == {<<Doc1>>}

SessionChatStart(q) == ChatEnter(q, TurnConversation, MaxSessionClock)
SessionRetrieve == RetrieveFrom(SessionDocLists)
SessionGenerate == GenerateFrom(SessionRawTexts)

InitSession ==
    /\ max_history \in (0..MaxH) \cup {DefaultMaxHistory}
    /\ conversations = EmptyDict
    /\ clock = 0
    /\ appended = [c \in ConvIds |-> <<>>]
    /\ TurnIdle
    /\ ThreadsIdle

NextSession ==
    \/ LoadVectorStore
    \/ ClearConversation(TurnConversation)
    \/ \E q \in Contents : SessionChatStart(q)
    \/ SessionRetrieve
    \/ SessionGenerate
    \/ ParseResponse
    \/ FallbackIfEmpty
    \/ BuildCitations
    \/ AddUser
    \/ AddAssistant
    \/ Return

SpecSession == InitSession /\ [][NextSession]_vars

(***************************************************************************)
(* The claims.                                                             *)
(***************************************************************************)

Min(a, b) == IF a <= b THEN a ELSE b
Elems(q) == {q[i] : i \in 1..Len(q)}

\* C1 (history bound): for every max history H >= 0, after each add_message the
\* stored conversation has length min(messages appended since creation or the last
\* clear, H) and is exactly the most recently appended messages, in append order.
C1_HistoryBound ==
    \A c \in ConvIds :
        LET n == Len(appended[c])
            k == Min(n, max_history)
        IN  IF c \in DOMAIN conversations
            THEN conversations[c] = SubSeq(appended[c], n - k + 1, n)
            ELSE n = 0

\* C2 (failed turn): when retrieval fails because the index is not initialized, or
\* the generation call fails, chat raises to its caller, the turn never reaches
\* generation after a failed retrieval, and the store is exactly what it was when
\* the turn began: no user message and no assistant message was appended.
C2_FailedTurnLeavesStore ==
    /\ pc \in {"generate", "parse", "fallback", "build", "add_user", "add_assistant", "return"}
           => vector_store # "None"
    /\ outcome.kind = "raise" =>
           /\ pc = "idle"
           /\ conversations = outcome.before
           /\ outcome.from = "retrieve" => "generate" \notin Elems(trace)
           /\ "add_user" \notin Elems(trace)
           /\ "add_assistant" \notin Elems(trace)

\* a turn failed in generation on a store that already held messages
C2_Witness ==
    /\ outcome.kind = "raise"
    /\ outcome.from = "generate"
    /\ outcome.before # EmptyDict
    /\ max_history > 0

\* the store after the two callers' calls run one after the other
SerialResult(first, second) ==
    add_message(add_message(initial, max_history, thr[first].conversation_id,
                            thr[first].message),
                max_history, thr[second].conversation_id, thr[second].message)

BothReturned == \A t \in Threads : thr[t].pc = "idle" /\ thr[t].calls = 1

\* C3 (mutual exclusion per conversation): when two callers run add_message on the
\* same conversation id at once, with their steps interleaved, the result is that of
\* the two calls run one after the other in some order: no message is lost and the
\* stored list is no longer than max_history.
C3_MutuallyExclusive ==
    (BothReturned /\ thr[1].conversation_id = thr[2].conversation_id) =>
        /\ conversations \in {SerialResult(1, 2), SerialResult(2, 1)}
        /\ Len(conversations[thr[1].conversation_id]) <= max_history

\* C4 (promotion): every citation of the final result has 1 <= doc_id <= len(chunks),
\* the metadata of chunks[doc_id - 1] and the content of the RawCitation it came from;
\* every RawCitation out of that range is dropped and nothing is raised, so an empty
\* chunk list gives an empty citation list.
C4_Promotion ==
    /\ outcome.kind # "raise"
    /\ pc = "add_user" =>
           LET kept == SelectSeq(actual_citations,
                                 LAMBDA c : c.doc_id >= 1 /\ c.doc_id <= Len(retrieved_docs))
           IN  /\ Len(citations) = Len(kept)
               /\ \A i \in 1..Len(citations) :
                      /\ citations[i].doc_id \in 1..Len(retrieved_docs)
                      /\ citations[i].doc_id = kept[i].doc_id
                      /\ citations[i].content = kept[i].content
                      /\ citations[i].metadata = retrieved_docs[kept[i].doc_id].metadata
               /\ retrieved_docs = <<>> => citations = <<>>

\* a result that kept one RawCitation and dropped another
C4_Witness ==
    /\ pc = "add_user"
    /\ citations # <<>>
    /\ Len(actual_citations) > Len(citations)

\* C5 (fallback only on empty Stage A): Stage B runs exactly when Stage A gave no
\* RawCitation (marker absent, or present with no parseable line); when Stage A gave
\* one or more, Stage B does not run and the RawCitations stay Stage A's, even if
\* the promotion then drops them all.
C5_FallbackIffStageAEmpty ==
    [][ /\ pc = "fallback" =>
              /\ ("fallback" \in Elems(trace')) <=> (actual_citations = <<>>)
              /\ actual_citations # <<>> => actual_citations' = actual_citations
        /\ pc # "fallback" =>
              (("fallback" \in Elems(trace')) <=> ("fallback" \in Elems(trace))) ]_vars

\* Stage A gave RawCitations, all were dropped, Stage B did not run
C5_Witness ==
    /\ pc = "add_user"
    /\ actual_citations # <<>>
    /\ citations = <<>>
    /\ "fallback" \notin Elems(trace)

\* the text on either side of the first occurrence of the marker
AfterFirstMarker(full) ==
    SubSeq(full, find(full, citation_marker, 1) + Len(citation_marker), Len(full))
BeforeFirstMarker(full) == SubSeq(full, 1, find(full, citation_marker, 1) - 1)

\* C7 (split at the first marker): with the marker in the raw text, once or several
\* times, the answer is the trimmed text before its first occurrence and the block
\* parsed line by line is everything after that first occurrence, so every
\* well-formed line after the first marker gives a RawCitation.
C7_SplitAtFirstMarker ==
    (pc = "fallback" /\ contains(full_response, citation_marker)) =>
        /\ answer = strip(BeforeFirstMarker(full_response))
        /\ actual_citations =
               parse_lines(split(strip(AfterFirstMarker(full_response)), <<"\n">>)).actual_citations

\* a well-formed line: the prefix, the separator and an integer label between them
LineLabel(line) == SubSeq(line, 1, find(line, <<":">>, 1) - 1)
HasPrefixAndSeparator(line) ==
    /\ Len(line) >= 2
    /\ line[1] = "wen"
    /\ line[2] = "dang"
    /\ \E i \in 1..Len(line) : line[i] = ":"
WellFormedLine(raw_line) ==
    /\ HasPrefixAndSeparator(strip(raw_line))
    /\ int(replace_empty(LineLabel(strip(raw_line)), doc_label)).ok
BlockLines == split(citation_block(full_response), <<"\n">>)

\* C8 (malformed lines are skipped): Stage A raises nothing; a line without the
\* prefix, without the separator or with a label that is no integer is skipped and
\* the lines after it are still parsed, so there are as many RawCitations as
\* well-formed lines.
C8_MalformedLinesSkipped ==
    /\ outcome.kind # "raise"
    /\ (pc = "fallback" /\ contains(full_response, citation_marker)) =>
           Len(actual_citations) =
               Cardinality({i \in 1..Len(BlockLines) : WellFormedLine(BlockLines[i])})

\* a block whose line with a non-integer label comes before a well-formed line
C8_Witness ==
    /\ pc = "fallback"
    /\ contains(full_response, citation_marker)
    /\ Len(actual_citations) = 1
    /\ \E i, j \in 1..Len(BlockLines) :
           /\ i < j
           /\ HasPrefixAndSeparator(strip(BlockLines[i]))
           /\ ~WellFormedLine(BlockLines[i])
           /\ WellFormedLine(BlockLines[j])

\* the cat scenario: one chunk with the two cat sentences, the question without
\* whitespace, a raw output without the marker that holds the inline token of chunk 1
CatScenario ==
    /\ pc = "add_user"
    /\ retrieved_docs = <<Doc1>>
    /\ turn.question = CatQuestion
    /\ ~contains(full_response, citation_marker)
    /\ contains(full_response, inline_token(1))
SecondCatSentence == <<"mao", "xi", "huan", "shui", "jiao", "juhao">>

\* C10 (cat scenario), as claimed: Stage B matches the sentence with the question's
\* keywords and the citation content is the second sentence.
C10_SecondSentence ==
    CatScenario =>
        citations = <<[doc_id |-> 1, content |-> SecondCatSentence,
                       metadata |-> Doc1.metadata]>>

\* C10 (cat scenario), as amended: Stage B runs, the question is one keyword that no
\* sentence contains, and the citation content is the whole chunk (its first 150
\* characters, no ellipsis).
C10_WholeChunk ==
    CatScenario =>
        /\ "fallback" \in Elems(trace)
        /\ citations = <<[doc_id |-> 1, content |-> CatContent,
                          metadata |-> Doc1.metadata]>>

\* the scenario's turn has resolved its citations
C10_Witness == CatScenario /\ "fallback" \in Elems(trace) /\ Len(citations) = 1

\* _find_relevant_content has returned its excerpt
ExcerptReturned == outcome.kind = "return" /\ outcome.of = "_find_relevant_content"

\* C6 (fallback excerpt bound), as claimed: whatever branch of _find_relevant_content
\* produces it, the excerpt is never longer than 150 characters plus the ellipsis.
C6_ExcerptBound ==
    ExcerptReturned => Len(outcome.excerpt) <= 150 + Len(ellipsis)

\* str.endswith, and an excerpt of sentences without its last sentence
endswith(s, p) == Len(p) <= Len(s) /\ SubSeq(s, Len(s) - Len(p) + 1, Len(s)) = p
WithoutLastSentence(excerpt) ==
    LET parts == split(SubSeq(excerpt, 1, Len(excerpt) - 1), full_stop)
    IN  join(full_stop, SubSeq(parts, 1, Len(parts) - 1))

\* C6 (fallback excerpt bound), as amended: the bound is 150 characters plus the
\* ellipsis when no sentence matches, 200 plus the ellipsis when the question has no
\* keyword, and with matching sentences the excerpt is those sentences, ended by the
\* full stop, collected until they exceed 150 characters: without its last sentence
\* it is at most 150 characters.
C6_ExcerptBoundByBranch ==
    ExcerptReturned =>
        LET branch == excerpt_branch(outcome.content, outcome.question)
            e == outcome.excerpt
        IN  /\ branch = "head" =>
                   /\ Len(e) <= 150 + Len(ellipsis)
                   /\ Len(e) > 150 => endswith(e, ellipsis)
            /\ branch = "no_keywords" =>
                   /\ Len(e) <= 200 + Len(ellipsis)
                   /\ Len(e) > 200 => endswith(e, ellipsis)
            /\ branch = "sentences" =>
                   /\ endswith(e, full_stop)
                   /\ Len(WithoutLastSentence(e)) <= 150

\* matching sentences gave an excerpt longer than 150 characters plus the ellipsis
C6_Witness ==
    /\ ExcerptReturned
    /\ excerpt_branch(outcome.content, outcome.question) = "sentences"
    /\ Len(outcome.excerpt) > 150 + Len(ellipsis)
    /\ Len(split(outcome.excerpt, full_stop)) > 2

\* the query expected from the positions of the user entries among the last 3
Max(S) == CHOOSE x \in S : \A y \in S : y <= x
ExpectedQuery(q, h) ==
    LET users == {i \in 1..Len(h) : i > Len(h) - 3 /\ h[i].role = "user"}
    IN  IF users = {} THEN q
        ELSE IF Cardinality(users) = 1 THEN h[Max(users)].content \o <<" ">> \o q
        ELSE h[Max(users \ {Max(users)})].content \o <<" ">>
                 \o h[Max(users)].content \o <<" ">> \o q

\* C9 (query enrichment): the enriched query is the question when the history is
\* empty or its last 3 entries hold no user message; otherwise it is the contents of
\* the last 2 user messages among the last 3 entries, in order, joined by single
\* spaces, then one space and the question.
C9_EnrichedQuery ==
    pc = "generate" => enhanced_query = ExpectedQuery(turn.question, turn.history)

\* four user messages u0 u1 u2 u3: the query is "u2 u3 q"
C9_Witness ==
    /\ pc = "generate"
    /\ Len(turn.history) = 4
    /\ \A i \in 1..4 : turn.history[i].role = "user"
    /\ turn.history[2].content # turn.history[3].content
    /\ turn.history[1].content # turn.history[3].content
    /\ enhanced_query = turn.history[3].content \o <<" ">> \o turn.history[4].content
                            \o <<" ">> \o turn.question

\* the steps of a turn that returned, with and without Stage B
TurnSteps(with_fallback) ==
    <<"read_history", "retrieve", "generate", "parse">>
        \o (IF with_fallback THEN <<"fallback">> ELSE <<>>)
        \o <<"build", "add_user", "add_assistant", "return">>
TurnReturned == outcome.kind = "return" /\ outcome.of = "chat"

\* C11 (fixed order of a turn): a turn that returns has run read history, retrieve
\* (at most 4 chunks), generate, resolve citations, append user, append assistant,
\* return, in this order and each once, also when retrieval gave no chunk; the
\* assistant message is appended right after the user message and carries the
\* citations in its metadata.
C11_FixedOrder ==
    /\ TurnReturned => trace \in {TurnSteps(TRUE), TurnSteps(FALSE)}
    /\ pc \in {"generate", "parse", "fallback", "build"} => Len(retrieved_docs) <= 4
    /\ pc = "return" =>
           LET log == appended[turn.conversation_id]
               n == Len(log)
           IN  /\ n >= 2
               /\ log[n - 1].role = "user"
               /\ log[n - 1].content = turn.question
               /\ log[n].role = "assistant"
               /\ log[n].content = answer
               /\ log[n].metadata = {<<"citations", citations>>}

\* a turn returned although retrieval gave no chunk
C11_Witness ==
    /\ TurnReturned
    /\ outcome.retrieved_docs = <<>>
    /\ trace = TurnSteps(TRUE)

\* the elements of a finite set of numbers in ascending order
Ascending(S) ==
    [k \in 1..Cardinality(S) |-> CHOOSE x \in S : Cardinality({y \in S : y < x}) = k - 1]
\* what a well-formed line says: the label's number and the trimmed text after the
\* first separator
LineCitation(raw_line) ==
    LET line == strip(raw_line)
    IN  [doc_id |-> int(replace_empty(LineLabel(line), doc_label)).value,
         content |-> strip(SubSeq(line, find(line, <<":">>, 1) + 1, Len(line)))]

\* C12 (discovery order): when Stage A gave the citations, the final list is the
\* well-formed lines of the citation block whose doc_id is in range, in the order of
\* the lines; when Stage B gave them, the final list is in strictly ascending chunk
\* index.
C12_DiscoveryOrder ==
    pc = "add_user" =>
        IF "fallback" \notin Elems(trace)
        THEN LET idx == Ascending({i \in 1..Len(BlockLines) :
                            /\ WellFormedLine(BlockLines[i])
                            /\ LineCitation(BlockLines[i]).doc_id \in 1..Len(retrieved_docs)})
             IN  /\ Len(citations) = Len(idx)
                 /\ \A k \in 1..Len(citations) :
                        /\ citations[k].doc_id = LineCitation(BlockLines[idx[k]]).doc_id
                        /\ citations[k].content = LineCitation(BlockLines[idx[k]]).content
        ELSE \A i, j \in 1..Len(citations) :
                 i < j => citations[i].doc_id < citations[j].doc_id

\* Stage A citations in line order 2, 1 with an out-of-range line dropped between
\* or around them
C12_Witness ==
    /\ pc = "add_user"
    /\ "fallback" \notin Elems(trace)
    /\ Len(citations) = 2
    /\ citations[1].doc_id = 2
    /\ citations[2].doc_id = 1
    /\ Len(actual_citations) = 3

\* Stage B citations for two chunks whose tokens occur in the answer in the order 2, 1
C12_WitnessStageB ==
    /\ pc = "add_user"
    /\ "fallback" \in Elems(trace)
    /\ Len(citations) = 2
    /\ find(answer, inline_token(2), 1) # 0
    /\ find(answer, inline_token(2), 1) < find(answer, inline_token(1), 1)

\* the resolver has run a second time on the inputs of a kept result
ResolvedTwice ==
    /\ pc = "add_user"
    /\ outcome.kind = "return"
    /\ outcome.of = "generate_answer"

HeadOf(content, n) ==
    SubSeq(content, 1, Min(n, Len(content))) \o (IF Len(content) > n THEN ellipsis ELSE <<>>)

AnswerText(full) ==
    IF contains(full, citation_marker) THEN strip(BeforeFirstMarker(full)) ELSE full
\* the chunk indexes whose inline token occurs in the text
TokenIndexes(text, n) == {i \in 1..n : contains(text, inline_token(i))}

\* C15 (answer without marker, one RawCitation per token): without the marker the
\* answer is the raw text unchanged; when Stage B has run, its RawCitations are one
\* for each chunk index whose inline token occurs in the answer text, and no other.
C15_FallbackPerToken ==
    /\ (pc \in {"fallback", "build", "add_user"} /\ ~contains(full_response, citation_marker))
           => answer = full_response
    /\ (pc = "build" /\ "fallback" \in Elems(trace)) =>
           LET hit == TokenIndexes(AnswerText(full_response), Len(retrieved_docs))
           IN  /\ Len(actual_citations) = Cardinality(hit)
               /\ {actual_citations[k].doc_id : k \in 1..Len(actual_citations)} = hit
               /\ \A k \in 1..Len(actual_citations) :
                      actual_citations[k].content =
                          find_relevant_content(
                              retrieved_docs[actual_citations[k].doc_id].page_content,
                              turn.question)

\* the token of chunk 2 in the answer, the token of chunk 1 only after the marker:
\* Stage B gives chunk 2 alone
C15_Witness ==
    /\ pc = "build"
    /\ "fallback" \in Elems(trace)
    /\ Len(retrieved_docs) = 2
    /\ contains(full_response, citation_marker)
    /\ contains(AfterFirstMarker(full_response), inline_token(1))
    /\ Len(actual_citations) = 1
    /\ actual_citations[1].doc_id = 2

\* a raw output without marker that ends with a blank is the answer, untrimmed
C15_WitnessUntrimmed ==
    /\ pc = "build"
    /\ ~contains(full_response, citation_marker)
    /\ full_response # strip(full_response)
    /\ answer = full_response

\* the conversations one step changed, and a list that is the end of another
Changed ==
    {c \in ConvIds : \/ (c \in DOMAIN conversations') # (c \in DOMAIN conversations)
                     \/ /\ c \in DOMAIN conversations
                        /\ c \in DOMAIN conversations'
                        /\ conversations'[c] # conversations[c]}
IsSuffix(s, t) == Len(s) <= Len(t) /\ s = SubSeq(t, Len(t) - Len(s) + 1, Len(t))

\* C16 (store operations touch one conversation): a step changes at most one
\* conversation; it either removes it (clear_conversation) or appends one message,
\* keeping the messages that stay stored as they were, and a conversation that was
\* absent (never created, or cleared) starts as a sequence of length 1;
\* get_conversation_history changes nothing, and gives the empty history for an
\* unknown id, which stays absent.
C16_StoreFrame ==
    [][ /\ Cardinality(Changed) <= 1
        /\ \A c \in Changed :
               \/ c \notin DOMAIN conversations'
               \/ /\ appended'[c] # <<>>
                  /\ IsSuffix(conversations'[c],
                              Append(get_conversation_history(conversations, c),
                                     appended'[c][Len(appended'[c])]))
                  /\ c \notin DOMAIN conversations => Len(conversations'[c]) = 1
        /\ (outcome' # outcome /\ outcome'.kind = "return"
                /\ outcome'.of = "get_conversation_history") =>
               /\ conversations' = conversations
               /\ outcome'.conversation_id \notin DOMAIN conversations
                      => outcome'.history = <<>>
               /\ outcome'.conversation_id \in DOMAIN conversations
                      => outcome'.history = conversations[outcome'.conversation_id]
        /\ \A c \in ConvIds :
               (c \in DOMAIN conversations /\ appended'[c] = <<>> /\ appended[c] # <<>>)
                   => c \notin DOMAIN conversations' ]_vars

\* with max history 2 and three messages added, two conversations of one message
\* each: one of them was cleared and started again
C16_Witness ==
    /\ max_history = 2
    /\ clock = 3
    /\ DOMAIN conversations = {"c1", "c2"}
    /\ Len(conversations["c1"]) = 1
    /\ Len(conversations["c2"]) = 1
    /\ Len(appended["c1"]) = 1

\* both turns have made their two appends
BothTurnsDone == \A t \in Threads : thr[t].pc = "idle" /\ thr[t].calls = 2

\* C17 (append order per turn): when two turns on one conversation id run at once,
\* in the final state every user message is immediately followed by the assistant
\* message of the same turn (stated for the default max history, where nothing is
\* trimmed, and a conversation that exists when the turns start).
C17_TurnsNotInterleaved ==
    (BothTurnsDone /\ initial # EmptyDict /\ max_history = DefaultMaxHistory) =>
        LET log == conversations[TurnConversation]
        IN  \A i \in 1..Len(log) :
                log[i].role = "user" =>
                    /\ i < Len(log)
                    /\ log[i + 1].role = "assistant"
                    /\ log[i + 1].content = log[i].content

\* C18 (alternation under the default max history): with max history 10, between
\* turns the stored history of the conversation has even length at most 10, is the
\* most recent messages appended since the last clear, alternates user, assistant
\* from a user message to an assistant message, and every assistant message directly
\* follows the user message of its own turn.
C18_Alternation ==
    (pc = "idle" /\ max_history = 10) =>
        LET log == get_conversation_history(conversations, TurnConversation)
            all == appended[TurnConversation]
        IN  /\ Len(log) % 2 = 0
            /\ Len(log) <= 10
            /\ IsSuffix(log, all)
            /\ Len(log) = Min(Len(all), 10)
            /\ \A i \in 1..Len(log) :
                   log[i].role = (IF i % 2 = 1 THEN "user" ELSE "assistant")
            /\ \A i \in 1..Len(log) :
                   i % 2 = 0 => log[i].timestamp = log[i - 1].timestamp + 1

\* six turns since the last clear: the first turn's pair was evicted
C18_Witness ==
    /\ pc = "idle"
    /\ max_history = 10
    /\ Len(appended[TurnConversation]) = 12
    /\ Len(conversations[TurnConversation]) = 10
    /\ clock = 14

\* the question of the turn before the one that is running
PreviousQuestion ==
    appended[TurnConversation][Len(appended[TurnConversation]) - 1].content
UsersInWindow(h) == {i \in 1..Len(h) : i > Len(h) - 3 /\ h[i].role = "user"}

\* C19 (enriched query after sequential turns), as claimed: the enriched query is the
\* question when the history is empty, and otherwise the question of the preceding
\* turn, a blank and the question, the last 3 entries holding one user message.
C19_PreviousQuestion ==
    pc = "generate" =>
        IF turn.history = <<>>
        THEN enhanced_query = turn.question
        ELSE /\ enhanced_query = PreviousQuestion \o <<" ">> \o turn.question
             /\ Cardinality(UsersInWindow(turn.history)) = 1

\* C19 (enriched query after sequential turns), as amended: the same, except under
\* max history 1, where the history is the assistant message of the preceding turn
\* alone and the enriched query is the question.
C19_PreviousQuestionUnlessOne ==
    pc = "generate" =>
        IF turn.history = <<>>
        THEN enhanced_query = turn.question
        ELSE IF max_history = 1
        THEN /\ enhanced_query = turn.question
             /\ Len(turn.history) = 1
             /\ turn.history[1].role = "assistant"
        ELSE /\ enhanced_query = PreviousQuestion \o <<" ">> \o turn.question
             /\ Cardinality(UsersInWindow(turn.history)) = 1

\* the third turn or a later one, after two turns with different questions
C19_Witness ==
    /\ pc = "generate"
    /\ max_history = 10
    /\ Len(turn.history) >= 4
    /\ turn.history[Len(turn.history) - 3].content # PreviousQuestion
    /\ enhanced_query = PreviousQuestion \o <<" ">> \o turn.question

====
